---- MODULE Spec2Model ----
(***************************************************************************)
(* Model of the quiz bot's test session engine (src/handlers/test.py,      *)
(* src/handlers/common.py), its session store (src/services/               *)
(* redis_service.py), the result recorder (src/services/google_sheets.py)  *)
(* and the question distributor (src/utils/question_distribution.py).      *)
(*                                                                         *)
(* Time is counted in whole seconds.  An optional value (Python None or a  *)
(* value) is a sequence of length 0 or 1.                                  *)
(***************************************************************************)
EXTENDS Integers, Sequences, FiniteSets, TLC

None == <<>>
Some(x) == <<x>>
IsSome(o) == Len(o) > 0
Get(o) == o[1]

Min(a, b) == IF a < b THEN a ELSE b

RECURSIVE SeqSum(_)
SeqSum(s) == IF Len(s) = 0 THEN 0 ELSE s[1] + SeqSum(Tail(s))

Range(s) == {s[i] : i \in DOMAIN s}

\* All orderings of the elements of a finite set (random.sample of a whole
\* list, random.shuffle).
Orderings(S) ==
    {p \in [1..Cardinality(S) -> S] : \A i, j \in 1..Cardinality(S) : i # j => p[i] # p[j]}

\* Python slice s[:n].
Prefix(s, n) == SubSeq(s, 1, Min(n, Len(s)))

-----------------------------------------------------------------------------
(* Bounds of the model.                                                    *)

MaxPool == 4          \* questions in a pool given to the distributor alone
MaxTarget == 5        \* largest num_questions given to the distributor alone
MaxQuotaPool == 6     \* questions in a pool whose quotas alone are computed
MaxTicks == 3         \* seconds that pass in one run of the engine
MaxEvents == 4        \* commands and button presses in one run of the engine
MaxAdminSessions == 1 \* sessions started in one run with an edit of the settings

-----------------------------------------------------------------------------
(* Question bank rows (models.Question).  Texts are left out; a question   *)
(* keeps its category, its correct option, its criticality flag and its    *)
(* sheet row.                                                              *)

Categories == {"A", "B", "C"}

Question(cat, correct, critical, row) ==
    [category |-> cat, correct_answer |-> correct, is_critical |-> critical, row_index |-> row]

\* read_questions numbers the data rows from 2 (row 1 holds the headers).
FirstRow == 2

-----------------------------------------------------------------------------
(* distribute_questions_by_category                                        *)

RECURSIVE FirstSeen(_, _)
FirstSeen(pool, acc) ==
    IF Len(pool) = 0 THEN acc
    ELSE IF pool[1].category \in Range(acc) THEN FirstSeen(Tail(pool), acc)
    ELSE FirstSeen(Tail(pool), Append(acc, pool[1].category))

\* The keys of the dict `categories`, in insertion order.
CategoryOrder(pool) == FirstSeen(pool, <<>>)

\* categories[c]: the questions of category c.
CategoryQuestions(pool, c) == {pool[i] : i \in {j \in DOMAIN pool : pool[j].category = c}}

CountIn(pool, c) == Cardinality({j \in DOMAIN pool : pool[j].category = c})

\* Python floats are IEEE 754 doubles: 53 significant bits, every division
\* and product rounded to the nearest double, ties to even.  A double d with
\* 0 <= d < 2^20 is held as the integer d * 2^60 in four digits of base 2^20,
\* most significant first: <<int(d), f1, f2, f3>>.
MantissaBits == 53
LimbBase == 1048576

RECURSIVE Pow2(_)
Pow2(n) == IF n = 0 THEN 1 ELSE 2 * Pow2(n - 1)

RECURSIVE BitLen(_)
BitLen(n) == IF n = 0 THEN 0 ELSE 1 + BitLen(n \div 2)

\* The digits brought back into 0..LimbBase-1, carries moving up.
Carry(d) ==
    LET d4 == d[4] % LimbBase
        t3 == d[3] + d[4] \div LimbBase
        d3 == t3 % LimbBase
        t2 == d[2] + t3 \div LimbBase
        d2 == t2 % LimbBase
    IN  <<d[1] + t2 \div LimbBase, d2, d3, d4>>

LimbsBitLen(d) ==
    IF d[1] > 0 THEN 60 + BitLen(d[1])
    ELSE IF d[2] > 0 THEN 40 + BitLen(d[2])
    ELSE IF d[3] > 0 THEN 20 + BitLen(d[3])
    ELSE BitLen(d[4])

\* Rounding of an exact value to 53 significant bits, to nearest, ties to
\* even; sticky says that the exact value has more below the last digit.
RoundToDouble(d, sticky) ==
    LET drop == LimbsBitLen(d) - MantissaBits
    IN  IF drop <= 0 THEN d
        ELSE LET unit == Pow2(drop)
                 low == d[4] % unit
                 half == unit \div 2
                 odd == IF drop < 20 THEN (d[4] \div unit) % 2 = 1 ELSE d[3] % 2 = 1
                 up == \/ low > half
                       \/ low = half /\ (sticky \/ odd)
             IN  Carry(<<d[1], d[2], d[3], d[4] - low + (IF up THEN unit ELSE 0)>>)

\* count_c / total_questions, for count_c <= total_questions.
FloatDiv(count, total) ==
    IF count = total THEN <<1, 0, 0, 0>>
    ELSE LET n1 == count * LimbBase
             n2 == (n1 % total) * LimbBase
             n3 == (n2 % total) * LimbBase
         IN  RoundToDouble(<<0, n1 \div total, n2 \div total, n3 \div total>>, n3 % total # 0)

\* num_questions * x, for a small integer num_questions.
FloatMul(n, x) == RoundToDouble(Carry(<<n * x[1], n * x[2], n * x[3], n * x[4]>>), FALSE)

\* raw = num_questions * (count_c / total_questions)
Raw(pool, target, c) == FloatMul(target, FloatDiv(CountIn(pool, c), Len(pool)))

\* quota_c = int(raw)
BaseQuota(pool, target, c) == Raw(pool, target, c)[1]

\* raw - quota_c: the digits of raw after the point.
FractionalPart(pool, target, c) == Tail(Raw(pool, target, c))

\* a > b for two fractional parts.
Greater(a, b) ==
    \/ a[1] > b[1]
    \/ a[1] = b[1] /\ a[2] > b[2]
    \/ a[1] = b[1] /\ a[2] = b[2] /\ a[3] > b[3]

IndexOf(s, x) == CHOOSE i \in DOMAIN s : s[i] = x

\* Variant: the categories in insertion order, not sorted; C21 fails for it.
SortedCategoriesUnsorted(pool, target) == CategoryOrder(pool)

\* sorted(fractional_parts.items(), key=..., reverse=True): a stable sort,
\* so categories of equal fractional part keep their insertion order.
SortedCategories(pool, target) ==
    LET order == CategoryOrder(pool)
        Before(a, b) ==
            \/ Greater(FractionalPart(pool, target, a), FractionalPart(pool, target, b))
            \/ /\ FractionalPart(pool, target, a) = FractionalPart(pool, target, b)
               /\ IndexOf(order, a) < IndexOf(order, b)
        Rank(c) == 1 + Cardinality({d \in Range(order) : Before(d, c)})
    IN  [i \in 1..Len(order) |-> CHOOSE c \in Range(order) : Rank(c) = i]

\* Variant: every extra slot goes to the first of the sorted categories; C39
\* fails for it.
ExtraSlotsToFirst(sorted, remaining, c) == IF sorted[1] = c THEN remaining ELSE 0

\* Variant: the loop runs over range(remaining - 1); C9 fails for it.
ExtraSlotsOffByOne(sorted, remaining, c) ==
    Cardinality({i \in 0..(remaining - 2) : sorted[(i % Len(sorted)) + 1] = c})

\* The extra slots one category receives when `remaining` slots are handed
\* out round-robin over the sorted categories.
ExtraSlots(sorted, remaining, c) ==
    Cardinality({i \in 0..(remaining - 1) : sorted[(i % Len(sorted)) + 1] = c})

\* quotas after the remainders of the rounding are handed out.
QuotasAfterRemainder(pool, target) ==
    LET order == CategoryOrder(pool)
        total_quota == SeqSum([i \in 1..Len(order) |-> BaseQuota(pool, target, order[i])])
        remaining == target - total_quota
        sorted == SortedCategories(pool, target)
    IN  [c \in Range(order) |->
            BaseQuota(pool, target, c)
            + (IF remaining > 0 THEN ExtraSlots(sorted, remaining, c) ELSE 0)]

\* One round of the clamp loop, for the category order[j].
RECURSIVE Redistribute(_, _, _, _, _)
Redistribute(pool, quotas, others, excess, i) ==
    IF i > Len(others) THEN quotas
    ELSE LET per_category == excess \div Len(others)
             remainder == excess % Len(others)
             add == per_category + (IF i - 1 < remainder THEN 1 ELSE 0)
             oc == others[i]
         IN  Redistribute(pool,
                 [quotas EXCEPT ![oc] = Min(quotas[oc] + add, CountIn(pool, oc))],
                 others, excess, i + 1)

RECURSIVE ClampFrom(_, _, _, _)
ClampFrom(pool, quotas, order, j) ==
    IF j > Len(order) THEN quotas
    ELSE LET c == order[j]
             max_available == CountIn(pool, c)
         IN  IF quotas[c] > max_available
             THEN LET excess == quotas[c] - max_available
                      capped == [quotas EXCEPT ![c] = max_available]
                      Spare(d) == d # c /\ capped[d] < CountIn(pool, d)
                      others == SelectSeq(order, Spare)
                  IN  IF Len(others) > 0
                      THEN ClampFrom(pool, Redistribute(pool, capped, others, excess, 1), order, j + 1)
                      ELSE ClampFrom(pool, capped, order, j + 1)
             ELSE ClampFrom(pool, quotas, order, j + 1)

\* The quotas the selection step uses.
FinalQuotas(pool, target) ==
    ClampFrom(pool, QuotasAfterRemainder(pool, target), CategoryOrder(pool), 1)

\* The sets of questions the per-category random.sample calls can pick.
Selections(pool, quotas) ==
    {S \in SUBSET Range(pool) :
        \A c \in DOMAIN quotas :
            Cardinality(S \cap CategoryQuestions(pool, c)) = Min(quotas[c], CountIn(pool, c))}

\* Variant: random.choices in place of random.sample, so a question can
\* repeat; C10 fails for it.
ShortfallSampleWithReplacement(pool) == [1..Len(pool) -> Range(pool)]

\* random.sample(questions, len(questions))
ShortfallSample(pool) == Orderings(Range(pool))

\* len(questions) < num_questions
Shortfall(pool, num_questions) == Len(pool) < num_questions

\* Every list distribute_questions_by_category(questions, num_questions) can
\* return.
Distribute(pool, num_questions) ==
    IF Len(pool) = 0 THEN {<<>>}
    ELSE IF Shortfall(pool, num_questions) THEN ShortfallSample(pool)
    ELSE LET quotas == FinalQuotas(pool, num_questions)
         IN  UNION {{Prefix(p, num_questions) : p \in Orderings(S)} : S \in Selections(pool, quotas)}

-----------------------------------------------------------------------------
(* The engine's world.                                                     *)

\* Telegram ids.  Users press buttons and send commands; BotId is the id of
\* the bot, the author of every message that carries an inline keyboard
\* (callback.message.from_user).
Users == {101}
BotId == 999
Keys == Users \cup {BotId}

\* + padding of the session TTL
TtlPadding == 300
\* seconds in an hour: hours_passed = (time.time() - last_test_time) / 3600
Hour == 3600

AdminConfig(n, m, h, s) ==
    [num_questions |-> n, max_errors |-> m, retry_hours |-> h, seconds_per_question |-> s]

\* The question sheet of the engine runs: two categories, one critical
\* question, two answer options per question.
EngineQuestions ==
    << Question("A", 1, FALSE, FirstRow),
       Question("B", 2, TRUE, FirstRow + 1) >>

AnswerOptions == {1, 2}

\* A row of the results sheet: columns A (telegram id), C (test date, as
\* the timestamp datetime.fromisoformat(row[2]).timestamp() yields), F and
\* I (campaign name, empty for the standalone test).
ResultRow(id, date, correct, campaign) ==
    [telegram_id |-> id, test_date |-> date, correct_count |-> correct, campaign_name |-> campaign]

\* The configurations and results sheets an engine run starts from.
Scenarios ==
    { [config |-> AdminConfig(2, 2, 24, 1), results |-> <<>>],
      [config |-> AdminConfig(2, 1, 24, 1),
       results |-> <<ResultRow(101, 0 - 10 * Hour, 1, "campaign")>>],
      [config |-> AdminConfig(2, 0, 24, 1),
       results |-> <<ResultRow(101, 0 - 25 * Hour, 1, "campaign")>>],
      [config |-> AdminConfig(2, 1, 24, 1),
       results |-> <<ResultRow(101, 0 - 10 * Hour, 1, "")>>],
      [config |-> AdminConfig(1, 1, 24, 1), results |-> <<>>] }

VARIABLES
    now,            \* time.time()
    adminConfig,    \* the settings sheet
    questionsSheet, \* the questions sheet, as read_questions returns it
    resultsSheet,   \* the results sheet
    redis_client,   \* redis_client of the RedisService instance of handlers/test.py
    store,          \* the keys session:<id> of the Redis server
    issued,         \* per key, the entry the handlers last asked the store to hold
    fsmState,       \* FSMContext state per user
    fsmData,        \* FSMContext data per user
    tasks,          \* handlers and timer tasks in flight
    events,         \* commands and button presses so far; the last one names its handler
    ticks,          \* seconds passed so far
    curSid,         \* per user, the number of the session prepare_test created last
    chat,           \* per user, what the bot has shown: buttons and notices
    prepared,       \* the outcome of every prepare_test call
    scored,         \* answers scored by process_answer
    finished,       \* every finish_test call
    answers,        \* every process_answer call and what it decided
    guards,         \* every second look of a check_timeout task and what it decided
    editedAt,       \* when the settings sheet was edited, if it was
    raised,         \* every exception a collaborator call raised, and who caught it
    retry,          \* a call of GoogleSheetsService._retry_request on its own
    boot,           \* main(): how far the start of the process has come
    dPool, dTarget, dResult, dPhase,  \* a call of the distributor on its own
    dQuotas         \* the quotas of that call after the remainders are handed out

engineVars == <<now, adminConfig, questionsSheet, resultsSheet, redis_client, store, issued,
                fsmState, fsmData, tasks, events, ticks, curSid, chat, prepared, scored,
                finished, answers, guards, editedAt, raised>>
distVars == <<dPool, dTarget, dResult, dPhase, dQuotas>>
vars == <<engineVars, distVars, retry, boot>>

EmptyData ==
    [fio |-> None, user_data |-> None, campaign_name |-> None, mode |-> None,
     questions |-> None, session |-> None]

\* What the user sees and can press; in_flight holds the buttons of
\* keyboards the bot has removed, whose presses made before the removal may
\* still reach their handler.
EmptyChat == [start_buttons |-> {}, answer_buttons |-> {}, in_flight |-> {}, notices |-> {}]

InitEngineWith(sc) ==
    /\ now = 0
    /\ adminConfig = sc.config
    /\ resultsSheet = sc.results
    /\ questionsSheet = EngineQuestions
    /\ redis_client = None
    /\ store = [k \in Keys |-> None]
    /\ issued = [k \in Keys |-> None]
    /\ fsmState = [u \in Users |-> None]
    /\ fsmData = [u \in Users |-> EmptyData]
    /\ tasks = {}
    /\ events = 0
    /\ ticks = 0
    /\ curSid = [u \in Users |-> 0]
    /\ chat = [u \in Users |-> EmptyChat]
    /\ prepared = {}
    /\ scored = {}
    /\ finished = {}
    /\ answers = {}
    /\ guards = {}
    /\ editedAt = None
    /\ raised = {}

InitEngine == \E sc \in Scenarios : InitEngineWith(sc)

\* No call of _retry_request is under way.
IdleRetry ==
    retry = [pc |-> "idle", responses |-> <<>>, attempt |-> 0, calls |-> <<>>, slept |-> <<>>,
             last_error |-> None, result |-> None]

\* main() has reached dp.start_polling.
IdleBoot ==
    boot = [pc |-> "polling", config_valid |-> TRUE, reachable |-> TRUE,
            redis_client |-> Some("client"), storage |-> Some("RedisStorage")]

IdleDist ==
    /\ dPool = <<>>
    /\ dTarget = 1
    /\ dResult = <<>>
    /\ dPhase = "idle"
    /\ dQuotas = [c \in Categories |-> 0]

Init == InitEngine /\ IdleDist /\ IdleRetry /\ IdleBoot

-----------------------------------------------------------------------------
(* RedisService (the session store)                                        *)

\* redis_client.exists(key) > 0; a key whose TTL has run out is gone.
Exists(st, k) == IsSome(st[k]) /\ now < Get(st[k]).expires

HasActiveSession(client, st, telegram_id) ==
    IF ~IsSome(client) THEN FALSE ELSE Exists(st, telegram_id)

Entry(session, ttl) == Some([session |-> session, ttl |-> ttl, expires |-> now + ttl])

\* setex(key, ttl, data)
SetSession(client, st, telegram_id, session, ttl) ==
    IF ~IsSome(client) THEN st ELSE [st EXCEPT ![telegram_id] = Entry(session, ttl)]

DeleteSession(client, st, telegram_id) ==
    IF ~IsSome(client) THEN st ELSE [st EXCEPT ![telegram_id] = None]

-----------------------------------------------------------------------------
(* GoogleSheetsService                                                     *)

\* now.strftime("%Y-%m-%d %H:%M"): the seconds are dropped.
TestDate(t) == t - (t % 60)

RECURSIVE LastRowOf(_, _)
LastRowOf(rows, telegram_id) ==
    IF Len(rows) = 0 THEN None
    ELSE IF rows[Len(rows)].telegram_id = telegram_id
         THEN Some(rows[Len(rows)].test_date)
         ELSE LastRowOf(SubSeq(rows, 1, Len(rows) - 1), telegram_id)

\* get_last_test_time: the date of the last row whose column A is the id.
GetLastTestTime(rows, telegram_id) == LastRowOf(rows, telegram_id)

\* cmd_start: any(not r.campaign_name for r in get_user_results(user_id))
HasTakenInitTest(rows, telegram_id) ==
    \E i \in DOMAIN rows : rows[i].telegram_id = telegram_id /\ rows[i].campaign_name = ""

\* The campaigns sheet (columns name, deadline, type, assignment): one
\* campaign whose deadline has not passed, assigned to everybody.  The bot
\* never writes to it.
CampaignsSheet ==
    << [name |-> "campaign", deadline_passed |-> FALSE, type |-> "training",
        assignment |-> "ALL"] >>

\* models.Campaign: the fields of the dataclass, none with a default.
CampaignFields == {"name", "deadline", "type", "assignment_type", "assignment_value"}

\* Line 167: Campaign(name=name, deadline=deadline, type=ctype, assignment=assignment)
CampaignKwargs == {"name", "deadline", "type", "assignment"}

\* get_all_campaigns: the rows as Campaign objects; building one raises
\* TypeError when the keywords are not the fields of the dataclass, the
\* except of line 172 catches it and [] is returned.
GetAllCampaigns(sheet) ==
    IF Len(sheet) = 0 \/ CampaignKwargs = CampaignFields THEN sheet ELSE <<>>

\* get_active_campaign_for_user: the first campaign whose deadline has not
\* passed, that is assigned to the user and for which the user has no
\* result.
GetActiveCampaignForUser(all_campaigns, rows, telegram_id) ==
    LET open == {i \in DOMAIN all_campaigns :
                    /\ ~all_campaigns[i].deadline_passed
                    /\ all_campaigns[i].assignment = "ALL"
                    /\ \A j \in DOMAIN rows :
                            ~(rows[j].telegram_id = telegram_id
                              /\ rows[j].campaign_name = all_campaigns[i].name)}
    IN  IF open = {} THEN None
        ELSE Some(all_campaigns[CHOOSE i \in open : \A j \in open : i <= j])

\* The parameters of write_result that have no default value.
WriteResultRequired ==
    {"telegram_id", "display_name", "test_date", "fio", "result", "correct_count",
     "campaign_name", "final_status"}

\* A call write_result(**kwargs): Python raises TypeError when a parameter
\* without default is not given; otherwise one row is appended.
WriteResult(rows, kwargs) ==
    IF WriteResultRequired \subseteq DOMAIN kwargs
    THEN [raised |-> FALSE,
          rows |-> Append(rows, ResultRow(kwargs.telegram_id, kwargs.test_date,
                                          kwargs.correct_count, kwargs.campaign_name))]
    ELSE [raised |-> TRUE, rows |-> rows]

-----------------------------------------------------------------------------
(* FSMContext                                                              *)

StateClear(u) ==
    /\ fsmState' = [fsmState EXCEPT ![u] = None]
    /\ fsmData' = [fsmData EXCEPT ![u] = EmptyData]

Notice(u, kind) == [chat EXCEPT ![u].notices = @ \cup {kind}]

-----------------------------------------------------------------------------
(* Tasks: a handler or a timer between two of its await points.            *)

NewTask(tid, kind, u, pc) ==
    [tid |-> tid, kind |-> kind, user |-> u, pc |-> pc, sid |-> 0, button |-> "",
     question_index |-> 0, answer |-> 0, deadline |-> 0, session |-> None, qlen |-> 0,
     wake |-> 0, passed |-> FALSE, timeout_question |-> None, by |-> "", telegram_id |-> 0,
     msg_sid |-> 0]

Replace(t, t2) == (tasks \ {t}) \cup {t2}

\* The id of the sender of the Message the handlers pass on: every caller
\* passes callback.message, a message the bot itself sent.
MessageFromUserId == BotId

\* Variant: remaining_score starts from the number of questions; C22 fails
\* for it.
SessionScoreFromQuestions(fio, question_ids, cfg, actual_num) ==
    [fio |-> fio, question_ids |-> question_ids, current_index |-> 0,
     remaining_score |-> actual_num, correct_count |-> 0,
     started_at |-> now, last_action_at |-> now, per_question_deadline |-> None,
     admin_config_snapshot |-> AdminConfig(actual_num, cfg.max_errors, cfg.retry_hours,
                                           cfg.seconds_per_question),
     campaign_name |-> None, mode |-> None]

\* Lines 82-97: Session(...) as prepare_test builds it.
Session(fio, question_ids, cfg, actual_num) ==
    [fio |-> fio, question_ids |-> question_ids, current_index |-> 0,
     remaining_score |-> cfg.max_errors, correct_count |-> 0,
     started_at |-> now, last_action_at |-> now, per_question_deadline |-> None,
     admin_config_snapshot |-> AdminConfig(actual_num, cfg.max_errors, cfg.retry_hours,
                                           cfg.seconds_per_question),
     campaign_name |-> None, mode |-> None]

-----------------------------------------------------------------------------
(* The environment: the clock and the user.                                *)

sheetVars == <<adminConfig, questionsSheet, editedAt>>
redisVars == <<redis_client, store, issued>>
fsmVars == <<fsmState, fsmData>>
ghostVars == <<prepared, scored, finished, answers, guards>>

\* A task is asleep: a timer before deadline + 0.5 s, a handler in its
\* asyncio.sleep(1).
Awake(deadline) == 2 * now >= 2 * deadline + 1

Sleeping(t) ==
    \/ t.pc = "ct_sleep" /\ ~Awake(t.deadline)
    \/ t.pc = "ask" /\ now < t.wake

\* The clock is observed through deadlines and sleeps only: it advances
\* while some task sleeps.
Tick ==
    /\ ticks < MaxTicks
    /\ \E t \in tasks : Sleeping(t)
    /\ now' = now + 1
    /\ ticks' = ticks + 1
    /\ UNCHANGED <<distVars, retry, boot, raised, sheetVars, resultsSheet, redisVars, fsmVars, tasks, events, curSid, chat,
                   ghostVars>>

\* cmd_start for a confirmed user.  The state is cleared first.  No campaign
\* is ever found: get_all_campaigns builds Campaign(..., assignment=...),
\* models.Campaign has no such field, and the TypeError makes it return [].
\* A user without a result of the standalone test is offered that test; for
\* any other user the call get_last_test_time(int(user_id),
\* campaign_name=None) raises TypeError and only an error message is sent.
StartButtons == {"start_campaign", "start_init_test"}

CmdStart(u) ==
    /\ events < MaxEvents
    /\ events' = events + 1
    /\ fsmState' = [fsmState EXCEPT ![u] = None]
    /\ LET campaign == GetActiveCampaignForUser(GetAllCampaigns(CampaignsSheet),
                                                resultsSheet, u)
       IN  IF IsSome(campaign)
           THEN /\ fsmData' = [fsmData EXCEPT ![u] =
                        [EmptyData EXCEPT !.user_data = Some([id |-> u]),
                                          !.campaign_name = Some(Get(campaign).name),
                                          !.mode = Some(Get(campaign).type)]]
                /\ chat' = [chat EXCEPT ![u].start_buttons = @ \cup {"start_campaign"}]
           ELSE /\ fsmData' = [fsmData EXCEPT ![u] = EmptyData]
                /\ chat' = IF HasTakenInitTest(resultsSheet, u)
                           THEN Notice(u, "error")
                           ELSE [chat EXCEPT ![u].start_buttons = @ \cup {"start_init_test"}]
    /\ UNCHANGED <<distVars, retry, boot, raised, now, ticks, sheetVars, resultsSheet, redisVars, tasks, curSid,
                   ghostVars>>

-----------------------------------------------------------------------------
(* prepare_test                                                            *)

\* hours_passed < admin_config.retry_hours, for a last_test_time that is set.
InCooldown(last_test_time, cfg) ==
    /\ IsSome(last_test_time)
    /\ Get(last_test_time) # 0
    /\ now - Get(last_test_time) < cfg.retry_hours * Hour

\* ttl = actual_num * seconds_per_question + 300
PrepareTtl(actual_num, cfg) == actual_num * cfg.seconds_per_question + TtlPadding

Outcome(u, tid, outcome, sid, key) ==
    [user |-> u, tid |-> tid, outcome |-> outcome, sid |-> sid, key |-> key,
     held |-> \E k \in Keys : Exists(issued, k), prior |-> fsmData[u].session,
     after_finish |-> \E f \in finished : f.user = u /\ f.cleared,
     last_attempt |-> GetLastTestTime(resultsSheet, u), at |-> now, config |-> adminConfig,
     actual_num |-> None, session |-> None,
     state_empty |-> fsmState'[u] = None /\ fsmData'[u] = EmptyData,
     stored |-> store' # store \/ issued' # issued,
     spawned |-> \E t \in tasks' \ tasks : t.tid = tid]

\* Variant: the selection is never found short; C20 fails for it.
NotEnoughNever(actual_num, admin_config) == FALSE

\* Line 64: if actual_num < admin_config.num_questions
NotEnough(actual_num, admin_config) == actual_num < admin_config.num_questions

\* prepare_test(message, state), entered with the data start_test_callback
\* left in the state, up to its call of ask_next_question; running is the
\* task of the caller, if the caller is one.
PrepareTest(u, tid, data, running) ==
    LET telegram_id == MessageFromUserId
        admin_config == adminConfig
    IN  IF HasActiveSession(redis_client, store, telegram_id)
        THEN /\ chat' = Notice(u, "active_session")
             /\ fsmState' = [fsmState EXCEPT ![u] = Some("PREPARE_TEST")]
             /\ fsmData' = [fsmData EXCEPT ![u] = data]
             /\ tasks' = tasks \ running
             /\ UNCHANGED <<store, issued, curSid>>
             /\ prepared' = prepared \cup {Outcome(u, tid, "active_session", 0, telegram_id)}
        ELSE IF InCooldown(GetLastTestTime(resultsSheet, telegram_id), admin_config)
        THEN /\ chat' = Notice(u, "cooldown")
             /\ StateClear(u)
             /\ tasks' = tasks \ running
             /\ UNCHANGED <<store, issued, curSid>>
             /\ prepared' = prepared \cup {Outcome(u, tid, "cooldown", 0, telegram_id)}
        ELSE \E selected_questions \in Distribute(questionsSheet, admin_config.num_questions) :
             LET actual_num == Len(selected_questions)
             IN  IF NotEnough(actual_num, admin_config)
                 THEN /\ chat' = Notice(u, "not_enough_questions")
                      /\ StateClear(u)
                      /\ tasks' = tasks \ running
                      /\ UNCHANGED <<store, issued, curSid>>
                      /\ prepared' = prepared \cup
                            {[Outcome(u, tid, "not_enough_questions", 0, telegram_id) EXCEPT
                                !.actual_num = Some(actual_num)]}
                 ELSE LET question_ids == [i \in 1..actual_num |-> selected_questions[i].row_index]
                          session == Session(data.fio, question_ids, admin_config, actual_num)
                          ttl == PrepareTtl(actual_num, admin_config)
                          sid == curSid[u] + 1
                      IN  /\ fsmData' = [fsmData EXCEPT ![u] =
                                    [data EXCEPT !.questions = Some(selected_questions),
                                                 !.session = Some(session)]]
                          /\ store' = SetSession(redis_client, store, telegram_id, session, ttl)
                          /\ issued' = [issued EXCEPT ![telegram_id] = Entry(session, ttl)]
                          /\ fsmState' = [fsmState EXCEPT ![u] = Some("ASKING")]
                          /\ chat' = Notice(u, "rules")
                          /\ curSid' = [curSid EXCEPT ![u] = sid]
                          /\ tasks' = (tasks \ running) \cup
                                {[NewTask(tid, "start", u, "ask") EXCEPT !.sid = sid]}
                          /\ prepared' = prepared \cup
                                {[Outcome(u, tid, "created", sid, telegram_id) EXCEPT
                                    !.actual_num = Some(actual_num),
                                    !.session = Some(session)]}

\* start_test_callback: the user presses a "start" button; the settings and
\* the questions are checked, fio and user_data go to the state and
\* prepare_test is called with the bot's message.
StartTestCallback(u, button) ==
    /\ events < MaxEvents
    /\ button \in chat[u].start_buttons
    /\ events' = events + 1
    /\ LET all_questions == questionsSheet
           tid == events + 1
           data == IF button = "start_init_test"
                   THEN [fsmData[u] EXCEPT !.fio = Some("fio"), !.user_data = Some([id |-> u]),
                                           !.campaign_name = None, !.mode = None]
                   ELSE [fsmData[u] EXCEPT !.fio = Some("fio"), !.user_data = Some([id |-> u])]
       IN  IF Len(all_questions) = 0 \/ Len(all_questions) < adminConfig.num_questions
           THEN /\ StateClear(u)
                /\ chat' = Notice(u, "no_questions")
                /\ UNCHANGED <<tasks, store, issued, curSid, prepared>>
           ELSE PrepareTest(u, tid, data, {})
    /\ UNCHANGED <<distVars, retry, boot, raised, now, ticks, sheetVars, resultsSheet, redis_client, scored, finished,
                   answers, guards>>

-----------------------------------------------------------------------------
(* ask_next_question                                                       *)

\* Variant: the deadline counted from the start of the session; C33 fails
\* for it.
QuestionDeadlineFromStart(session) ==
    session.started_at + session.admin_config_snapshot.seconds_per_question

\* Variant: the deadline from the settings sheet as it is now; C11 fails
\* for it.
QuestionDeadlineLive(session) == now + adminConfig.seconds_per_question

\* Line 155: deadline = time.time() + admin_config_snapshot["seconds_per_question"]
QuestionDeadline(session) == now + session.admin_config_snapshot.seconds_per_question

\* Variant: the TTL of the whole test at every question; C23 fails for it.
QuestionTtlFromTotal(qlen, idx, session) ==
    qlen * session.admin_config_snapshot.seconds_per_question + TtlPadding

\* ttl = (len(questions_data) - current_idx) * seconds_per_question + 300
QuestionTtl(qlen, idx, session) ==
    (qlen - idx) * session.admin_config_snapshot.seconds_per_question + TtlPadding

Missing(data) ==
    \/ ~IsSome(data.questions)
    \/ Len(Get(data.questions)) = 0
    \/ ~IsSome(data.session)

AnswerButton(sid, idx, answer) == [sid |-> sid, question_index |-> idx, answer |-> answer]

\* ask_next_question, called by prepare_test or, after asyncio.sleep(1), by
\* process_answer: past the last question the test is finished as passed;
\* otherwise the deadline is set and stored, the question and its buttons
\* are sent, the state becomes WAIT_ANSWER and the timer task is created.
AskNextQuestion(t) ==
    /\ t \in tasks /\ t.pc = "ask"
    /\ now >= t.wake
    /\ LET u == t.user
           data == fsmData[u]
       IN  IF Missing(data)
           THEN /\ chat' = Notice(u, "session_not_found")
                /\ StateClear(u)
                /\ tasks' = tasks \ {t}
                /\ UNCHANGED <<store, issued>>
           ELSE LET session == Get(data.session)
                    questions_data == Get(data.questions)
                    current_idx == session.current_index
                IN  IF current_idx >= Len(questions_data)
                    THEN /\ tasks' = Replace(t, [t EXCEPT !.pc = "fin", !.passed = TRUE,
                                                          !.timeout_question = None, !.by = "ask",
                                                          !.question_index = current_idx])
                         /\ UNCHANGED <<fsmState, fsmData, store, issued, chat>>
                    ELSE LET deadline == QuestionDeadline(session)
                             asked == [session EXCEPT !.per_question_deadline = Some(deadline),
                                                      !.last_action_at = now]
                             telegram_id == MessageFromUserId
                             ttl == QuestionTtl(Len(questions_data), current_idx, asked)
                             timer == [NewTask(t.tid, "timer", u, "ct_sleep") EXCEPT
                                            !.question_index = current_idx, !.deadline = deadline,
                                            !.sid = curSid[u]]
                         IN  /\ fsmData' = [fsmData EXCEPT ![u].session = Some(asked)]
                             /\ store' = SetSession(redis_client, store, telegram_id, asked, ttl)
                             /\ issued' = [issued EXCEPT ![telegram_id] = Entry(asked, ttl)]
                             /\ chat' = [chat EXCEPT ![u].answer_buttons = @ \cup
                                    {AnswerButton(curSid[u], current_idx, a) : a \in AnswerOptions}]
                             /\ fsmState' = [fsmState EXCEPT ![u] = Some("WAIT_ANSWER")]
                             /\ tasks' = (tasks \ {t}) \cup {timer}
    /\ UNCHANGED <<distVars, retry, boot, raised, now, ticks, sheetVars, resultsSheet, redis_client, events, curSid, ghostVars>>

-----------------------------------------------------------------------------
(* check_timeout                                                           *)

\* Lines 216-227: after the sleep, a first look at the index.
CheckTimeoutWake(t) ==
    /\ t \in tasks /\ t.pc = "ct_sleep"
    /\ Awake(t.deadline)
    /\ LET session_dict == fsmData[t.user].session
       IN  IF IsSome(session_dict) /\ Get(session_dict).current_index > t.question_index
           THEN tasks' = tasks \ {t}
           ELSE tasks' = Replace(t, [t EXCEPT !.pc = "ct_check"])
    /\ UNCHANGED <<distVars, retry, boot, raised, now, ticks, sheetVars, resultsSheet, redisVars, fsmVars, events, curSid, chat,
                   ghostVars>>

\* Variant: the guard without the comparison of the index; C12 fails for it.
TimeoutGuardAnyIndex(session_dict, question_index, deadline) ==
    /\ now >= deadline
    /\ IsSome(session_dict)

\* Lines 230-236: time.time() >= deadline and the live index is still the
\* timer's.
TimeoutGuard(session_dict, question_index, deadline) ==
    /\ now >= deadline
    /\ IsSome(session_dict)
    /\ Get(session_dict).current_index = question_index

\* Lines 229-239: the second look; the timer finishes the test.
CheckTimeoutFire(t) ==
    /\ t \in tasks /\ t.pc = "ct_check"
    /\ LET u == t.user
       IN  IF TimeoutGuard(fsmData[u].session, t.question_index, t.deadline)
           THEN /\ chat' = Notice(u, "time_expired")
                /\ tasks' = Replace(t, [t EXCEPT !.pc = "fin", !.passed = FALSE,
                                                 !.timeout_question = Some(t.question_index + 1),
                                                 !.by = "timer"])
           ELSE /\ tasks' = tasks \ {t}
                /\ chat' = chat
    /\ UNCHANGED <<distVars, retry, boot, raised, now, ticks, sheetVars, resultsSheet, redisVars, fsmVars, events, curSid,
                   prepared, scored, finished, answers>>
    /\ guards' = guards \cup
            {[question_index |-> t.question_index, deadline |-> t.deadline, at |-> now,
              current_index |-> IF IsSome(fsmData[t.user].session)
                                THEN Some(Get(fsmData[t.user].session).current_index)
                                ELSE None,
              calls |-> {[passed |-> c.passed, timeout_question |-> c.timeout_question] :
                            c \in {c \in tasks' \ tasks : c.pc = "fin"}},
              changed |-> \/ <<fsmData', fsmState', store', issued', resultsSheet', chat'>>
                             # <<fsmData, fsmState, store, issued, resultsSheet, chat>>
                          \/ tasks' # tasks \ {t}]}

-----------------------------------------------------------------------------
(* process_answer                                                          *)

\* Variant: time.time() >= per_question_deadline; C16 fails for it.
LateOrEqual(session) ==
    /\ IsSome(session.per_question_deadline)
    /\ Get(session.per_question_deadline) # 0
    /\ now >= Get(session.per_question_deadline)

\* session.per_question_deadline and time.time() > session.per_question_deadline
Late(session) ==
    /\ IsSome(session.per_question_deadline)
    /\ Get(session.per_question_deadline) # 0
    /\ now > Get(session.per_question_deadline)

\* Variant: a wrong answer is not counted; C38 fails for it.
ScoreRightAnswerOnly(session, question, answer) ==
    IF answer = question.correct_answer
    THEN [session EXCEPT !.correct_count = @ + 1]
    ELSE session

\* Variant: a wrong answer takes two points; C32 fails for it.
ScoreTwoPoints(session, question, answer) ==
    IF answer = question.correct_answer
    THEN [session EXCEPT !.correct_count = @ + 1]
    ELSE [session EXCEPT !.remaining_score = @ - 2]

\* Lines 274-279: a right answer adds to correct_count, any wrong answer
\* takes one point of remaining_score.
Score(session, question, answer) ==
    IF answer = question.correct_answer
    THEN [session EXCEPT !.correct_count = @ + 1]
    ELSE [session EXCEPT !.remaining_score = @ - 1]

\* Variant: session.remaining_score < 0; C4 fails for it.
ExhaustedBelowZero(session) == session.remaining_score < 0

\* Line 294: session.remaining_score <= 0
Exhausted(session) == session.remaining_score <= 0

\* The callbacks that can reach process_answer: a press of a button on
\* display, or one made before edit_reply_markup (line 290) took effect.
PressedButtons(u) == chat[u].answer_buttons \cup chat[u].in_flight

\* Variant: the index check passes every button; C17 fails for it.
StaleAnswerNever(question_index, current_idx) == FALSE

\* Line 257: if question_index != current_idx
StaleAnswer(question_index, current_idx) == question_index # current_idx

\* What process_answer decides for a pressed button, lines 250-266.
Verdict(data, b) ==
    IF Missing(data) THEN "missing"
    ELSE IF StaleAnswer(b.question_index, Get(data.session).current_index) THEN "stale"
    ELSE IF Late(Get(data.session)) THEN "late"
    ELSE "scored"

\* Lines 243-291: the handler runs for a pressed answer button while the
\* state is WAIT_ANSWER; it reads the data, checks the index and the
\* deadline and scores the answer in its own copy of the session.
ProcessAnswer(u, b) ==
    /\ events < MaxEvents
    /\ b \in PressedButtons(u)
    /\ fsmState[u] = Some("WAIT_ANSWER")
    /\ events' = events + 1
    /\ LET data == fsmData[u]
           tid == events + 1
       IN  IF Missing(data)
           THEN /\ chat' = Notice(u, "session_not_found")
                /\ UNCHANGED <<tasks, scored>>
           ELSE LET session == Get(data.session)
                    questions_data == Get(data.questions)
                    current_idx == session.current_index
                    base == [NewTask(tid, "answer", u, "pa_mark") EXCEPT
                                !.sid = curSid[u], !.msg_sid = b.sid,
                                !.question_index = current_idx, !.answer = b.answer,
                                !.qlen = Len(questions_data)]
                IN  IF StaleAnswer(b.question_index, current_idx)
                    THEN /\ chat' = Notice(u, "already_passed")
                         /\ UNCHANGED <<tasks, scored>>
                    ELSE IF Late(session)
                    THEN /\ chat' = Notice(u, "time_expired")
                         /\ tasks' = tasks \cup
                                {[base EXCEPT !.pc = "fin", !.passed = FALSE,
                                              !.timeout_question = Some(current_idx + 1),
                                              !.by = "late"]}
                         /\ UNCHANGED scored
                    ELSE LET question == questions_data[current_idx + 1]
                             marked == Score(session, question, b.answer)
                         IN  /\ tasks' = tasks \cup {[base EXCEPT !.session = Some(marked)]}
                             /\ scored' = scored \cup
                                    {[tid |-> tid, user |-> u, sid |-> curSid[u], msg_sid |-> b.sid,
                                      question_index |-> current_idx, question |-> question,
                                      answer |-> b.answer, before |-> session, after |-> marked,
                                      effect |-> "pending"]}
                             /\ chat' = chat
    /\ UNCHANGED <<distVars, retry, boot, raised, now, ticks, sheetVars, resultsSheet, redisVars, fsmVars, curSid, prepared,
                   finished, guards>>
    /\ answers' = answers \cup
            {[at |-> now, question_index |-> b.question_index,
              current_index |-> IF Missing(fsmData[u]) THEN None
                                ELSE Some(Get(fsmData[u].session).current_index),
              deadline |-> IF Missing(fsmData[u]) THEN None
                           ELSE Get(fsmData[u].session).per_question_deadline,
              verdict |-> Verdict(fsmData[u], b),
              marked |-> scored' # scored,
              calls |-> {[passed |-> c.passed, timeout_question |-> c.timeout_question] :
                            c \in {c \in tasks' \ tasks : c.pc = "fin"}},
              changed |-> <<fsmData', fsmState', store', issued', tasks', resultsSheet'>>
                          # <<fsmData, fsmState, store, issued, tasks, resultsSheet>>]}

ScoredBy(tid) == CHOOSE s \in scored : s.tid = tid

\* Lines 287-313: the buttons are removed; an exhausted score finishes the
\* test, otherwise the advanced session is stored and the handler sleeps
\* one second before it asks the next question.
ProcessAnswerAdvance(t) ==
    /\ t \in tasks /\ t.pc = "pa_mark"
    /\ LET u == t.user
           session == Get(t.session)
           s == ScoredBy(t.tid)
       IN  /\ scored' = (scored \ {s}) \cup
                    {[s EXCEPT !.effect = IF Exhausted(session) THEN "finish" ELSE "advanced"]}
           /\ LET removed == {b \in chat[u].answer_buttons :
                                b.sid = t.msg_sid /\ b.question_index = t.question_index}
              IN  chat' = [chat EXCEPT ![u].answer_buttons = @ \ removed,
                                       ![u].in_flight = @ \cup removed]
           /\ IF Exhausted(session)
              THEN /\ tasks' = Replace(t, [t EXCEPT !.pc = "fin", !.passed = FALSE,
                                                    !.timeout_question = None, !.by = "exhausted"])
                   /\ UNCHANGED <<fsmData, store, issued>>
              ELSE LET advanced == [session EXCEPT !.current_index = @ + 1,
                                                   !.last_action_at = now,
                                                   !.per_question_deadline = None]
                       ttl == QuestionTtl(t.qlen, advanced.current_index, advanced)
                   IN  /\ fsmData' = [fsmData EXCEPT ![u].session = Some(advanced)]
                       /\ store' = SetSession(redis_client, store, u, advanced, ttl)
                       /\ issued' = [issued EXCEPT ![u] = Entry(advanced, ttl)]
                       /\ tasks' = Replace(t, [t EXCEPT !.pc = "ask", !.wake = now + 1,
                                                        !.session = Some(advanced)])
    /\ UNCHANGED <<distVars, retry, boot, raised, now, ticks, sheetVars, resultsSheet, redis_client, fsmState, events,
                   curSid, prepared, finished, answers, guards>>

-----------------------------------------------------------------------------
(* finish_test                                                             *)

\* The keyword arguments of the call of write_result at lines 363-371.
FinishTestKwargs(telegram_id, session, passed, timeout_question) ==
    [telegram_id |-> telegram_id, display_name |-> "name", test_date |-> TestDate(now),
     fio |-> session.fio, result |-> IF passed THEN "passed" ELSE "failed",
     correct_count |-> session.correct_count, notes |-> timeout_question]

\* Variant: set_state(FINISHED) in place of state.clear(); C6 fails for it.
FinishWithoutSessionKeepState(u) ==
    /\ fsmState' = [fsmState EXCEPT ![u] = Some("FINISHED")]
    /\ fsmData' = fsmData

\* Lines 336-339: no session in the state.
FinishWithoutSession(u) == StateClear(u)

FinishCall(t, found) ==
    [tid |-> t.tid, kind |-> t.kind, user |-> t.user, by |-> t.by, sid |-> t.sid,
     session_sid |-> curSid[t.user], question_index |-> t.question_index,
     passed |-> t.passed, timeout_question |-> t.timeout_question, at |-> now,
     found |-> found, session |-> fsmData[t.user].session,
     in_sequence |-> /\ fsmState[t.user] = None
                     /\ fsmData[t.user] = EmptyData
                     /\ \E g \in finished : g.found /\ g.cleared /\ g.session_sid = t.sid,
     raised |-> FALSE, warned |-> FALSE, rows |-> 0, changed |-> FALSE,
     cleared |-> FALSE, state_empty |-> FALSE, store_entry |-> FALSE]

\* Lines 320-392: the data is read; without a session the state is cleared
\* and nothing else happens; otherwise the result is handed to write_result
\* and the user is told the outcome.
FinishTestRecord(t) ==
    /\ t \in tasks /\ t.pc = "fin"
    /\ UNCHANGED <<distVars, retry, boot, raised, now, ticks, sheetVars, redisVars, events, curSid, prepared, scored,
                   answers, guards>>
    /\ LET u == t.user
           data == fsmData[u]
           user_data == IF IsSome(data.user_data) THEN Get(data.user_data)
                        ELSE [id |-> MessageFromUserId]
           telegram_id == user_data.id
       IN  IF ~IsSome(data.session)
           THEN /\ chat' = Notice(u, "session_not_found")
                /\ FinishWithoutSession(u)
                /\ tasks' = tasks \ {t}
                /\ resultsSheet' = resultsSheet
                /\ finished' = finished \cup
                        {[FinishCall(t, FALSE) EXCEPT
                            !.rows = Len(resultsSheet') - Len(resultsSheet),
                            !.changed = (fsmState' # fsmState \/ fsmData' # fsmData
                                         \/ store' # store)]}
           ELSE LET session == Get(data.session)
                    call == WriteResult(resultsSheet,
                                FinishTestKwargs(telegram_id, session, t.passed, t.timeout_question))
                IN  /\ resultsSheet' = call.rows
                    /\ chat' = [chat EXCEPT ![u].notices = @ \cup
                            ({"finished"} \cup IF call.raised THEN {"not_saved"} ELSE {})]
                    /\ finished' = finished \cup
                            {[FinishCall(t, TRUE) EXCEPT
                                !.raised = call.raised,
                                !.warned = "not_saved" \in chat'[u].notices,
                                !.rows = Len(resultsSheet') - Len(resultsSheet)]}
                    /\ tasks' = Replace(t, [t EXCEPT !.pc = "fin_clear", !.telegram_id = telegram_id])
                    /\ UNCHANGED <<fsmState, fsmData>>

\* Variant: set_state(FINISHED) without the state.clear() after it; C7 fails
\* for it.
FinishTestKeepData(u) ==
    /\ fsmState' = [fsmState EXCEPT ![u] = Some("FINISHED")]
    /\ fsmData' = fsmData

\* Lines 396-397: set_state(FINISHED), then state.clear().
FinishTestClearState(u) == StateClear(u)

FinishCallOf(t) == CHOOSE f \in finished : f.tid = t.tid /\ f.kind = t.kind /\ f.found

\* Lines 394-397: delete_session, then the state is cleared.
FinishTestClear(t) ==
    /\ t \in tasks /\ t.pc = "fin_clear"
    /\ store' = DeleteSession(redis_client, store, t.telegram_id)
    /\ issued' = [issued EXCEPT ![t.telegram_id] = None]
    /\ FinishTestClearState(t.user)
    /\ tasks' = tasks \ {t}
    /\ finished' = (finished \ {FinishCallOf(t)}) \cup
            {[FinishCallOf(t) EXCEPT
                !.cleared = TRUE,
                !.state_empty = (fsmState'[t.user] = None /\ fsmData'[t.user] = EmptyData),
                !.store_entry = IsSome(store'[t.user])]}
    /\ UNCHANGED <<distVars, retry, boot, raised, now, ticks, sheetVars, resultsSheet, redis_client, events, curSid,
                   chat, prepared, scored, answers, guards>>

-----------------------------------------------------------------------------
(* The engine                                                              *)

Next ==
    \/ Tick
    \/ \E u \in Users : CmdStart(u)
    \/ \E u \in Users, button \in StartButtons : StartTestCallback(u, button)
    \/ \E t \in tasks : AskNextQuestion(t)
    \/ \E u \in Users : \E b \in PressedButtons(u) : ProcessAnswer(u, b)
    \/ \E t \in tasks : ProcessAnswerAdvance(t)
    \/ \E t \in tasks : CheckTimeoutWake(t)
    \/ \E t \in tasks : CheckTimeoutFire(t)
    \/ \E t \in tasks : FinishTestRecord(t)
    \/ \E t \in tasks : FinishTestClear(t)

Spec == Init /\ [][Next]_vars

-----------------------------------------------------------------------------
(* The engine under fair scheduling: the event loop runs every task that   *)
(* is ready, and time passes while a task sleeps.  The user is free to     *)
(* send events or not.                                                     *)

InitLive ==
    /\ InitEngineWith([config |-> AdminConfig(1, 1, 24, 1), results |-> <<>>])
    /\ IdleDist
    /\ IdleRetry
    /\ IdleBoot

Scheduled ==
    \/ Tick
    \/ \E t \in tasks : AskNextQuestion(t)
    \/ \E t \in tasks : ProcessAnswerAdvance(t)
    \/ \E t \in tasks : CheckTimeoutWake(t)
    \/ \E t \in tasks : CheckTimeoutFire(t)
    \/ \E t \in tasks : FinishTestRecord(t)
    \/ \E t \in tasks : FinishTestClear(t)

SpecLive == InitLive /\ [][Next]_vars /\ WF_vars(Scheduled)

-----------------------------------------------------------------------------
(* The engine with collaborators that fail: a call that sends or edits a   *)
(* Telegram message may raise.  Each action below is the code path of one  *)
(* such exception, from the call that raises to whoever catches it.        *)

\* What an exception left behind, noted when it has been caught or has
\* left the handler: the call that raised was made in "operation", which
\* was running inside "within".
Raise(operation, within, u, tid, caught_by) ==
    [operation |-> operation, within |-> within, user |-> u, tid |-> tid,
     caught_by |-> caught_by,
     session_in_state |-> IsSome(fsmData'[u].session),
     entry_in_store |-> \E k \in Keys : Exists(store', k),
     entry_issued |-> \E k \in Keys : Exists(issued', k)]

\* Who ends up with an exception raised in prepare_test: its own except
\* (lines 124-127) sends a message before it clears the state, and that send
\* may raise too; then the except of start_test_callback (common.py:212-215)
\* does the same, and past it the exception reaches the dispatcher.
Catchers == {"prepare_test", "start_test_callback", "dispatcher"}

\* The except branches between the raising call and the catcher that
\* completes: each clears the state only after its own message was sent.
Caught(u, caught_by, kept_data, kept_state) ==
    IF caught_by = "prepare_test"
    THEN /\ StateClear(u)
         /\ chat' = Notice(u, "prepare_error")
    ELSE IF caught_by = "start_test_callback"
    THEN /\ StateClear(u)
         /\ chat' = Notice(u, "start_error")
    ELSE /\ fsmData' = [fsmData EXCEPT ![u] = kept_data]
         /\ fsmState' = [fsmState EXCEPT ![u] = kept_state]
         /\ chat' = chat

\* start_test_callback whose prepare_test persists the Session (lines
\* 100-109) and gets an exception from the message with the rules (line 112).
PrepareTestRaise(u, button, caught_by) ==
    /\ events < MaxEvents
    /\ button \in chat[u].start_buttons
    /\ Len(questionsSheet) # 0 /\ Len(questionsSheet) >= adminConfig.num_questions
    /\ ~HasActiveSession(redis_client, store, MessageFromUserId)
    /\ ~InCooldown(GetLastTestTime(resultsSheet, MessageFromUserId), adminConfig)
    /\ events' = events + 1
    /\ \E selected_questions \in Distribute(questionsSheet, adminConfig.num_questions) :
         LET actual_num == Len(selected_questions)
             data == IF button = "start_init_test"
                     THEN [fsmData[u] EXCEPT !.fio = Some("fio"), !.user_data = Some([id |-> u]),
                                             !.campaign_name = None, !.mode = None]
                     ELSE [fsmData[u] EXCEPT !.fio = Some("fio"), !.user_data = Some([id |-> u])]
             question_ids == [i \in 1..actual_num |-> selected_questions[i].row_index]
             session == Session(data.fio, question_ids, adminConfig, actual_num)
             ttl == PrepareTtl(actual_num, adminConfig)
             telegram_id == MessageFromUserId
         IN  /\ ~NotEnough(actual_num, adminConfig)
             /\ store' = SetSession(redis_client, store, telegram_id, session, ttl)
             /\ issued' = [issued EXCEPT ![telegram_id] = Entry(session, ttl)]
             /\ curSid' = [curSid EXCEPT ![u] = @ + 1]
             /\ Caught(u, caught_by,
                       [data EXCEPT !.questions = Some(selected_questions),
                                    !.session = Some(session)],
                       Some("ASKING"))
    /\ UNCHANGED <<distVars, retry, boot, now, ticks, sheetVars, resultsSheet, redis_client, tasks, ghostVars>>
    /\ raised' = raised \cup {Raise("prepare_test", "prepare_test", u, events + 1, caught_by)}

\* ask_next_question whose message with the question raises (line 199),
\* after the deadline was stored (lines 156-164): no button is shown, the
\* state is not set to WAIT_ANSWER and no timer is created.  Called by
\* prepare_test, the exception is caught by the except branches above;
\* called by process_answer, nothing catches it.
AskNextQuestionRaise(t, caught_by) ==
    /\ t \in tasks /\ t.pc = "ask"
    /\ now >= t.wake
    /\ ~Missing(fsmData[t.user])
    /\ Get(fsmData[t.user].session).current_index < Len(Get(fsmData[t.user].questions))
    /\ IF t.kind = "start" THEN caught_by \in Catchers ELSE caught_by = "dispatcher"
    /\ LET u == t.user
           session == Get(fsmData[u].session)
           questions_data == Get(fsmData[u].questions)
           asked == [session EXCEPT !.per_question_deadline = Some(QuestionDeadline(session)),
                                    !.last_action_at = now]
           telegram_id == MessageFromUserId
           ttl == QuestionTtl(Len(questions_data), session.current_index, asked)
       IN  /\ store' = SetSession(redis_client, store, telegram_id, asked, ttl)
           /\ issued' = [issued EXCEPT ![telegram_id] = Entry(asked, ttl)]
           /\ Caught(u, caught_by, [fsmData[u] EXCEPT !.session = Some(asked)], fsmState[u])
    /\ tasks' = tasks \ {t}
    /\ UNCHANGED <<distVars, retry, boot, now, ticks, sheetVars, resultsSheet, redis_client, events, curSid,
                   ghostVars>>
    /\ raised' = raised \cup
            {Raise("ask_next_question",
                   IF t.kind = "start" THEN "prepare_test" ELSE "process_answer",
                   t.user, t.tid, caught_by)}

\* process_answer whose edit_reply_markup raises (line 290): the handler
\* has no try, the answer it scored in its copy of the session is lost.
ProcessAnswerRaise(t) ==
    /\ t \in tasks /\ t.pc = "pa_mark"
    /\ tasks' = tasks \ {t}
    /\ UNCHANGED <<distVars, retry, boot, now, ticks, sheetVars, resultsSheet, redisVars, fsmVars, events,
                   curSid, chat, ghostVars>>
    /\ raised' = raised \cup
            {Raise("process_answer", "process_answer", t.user, t.tid, "dispatcher")}

\* check_timeout whose message about the expired time raises (line 238):
\* finish_test is not called and the exception ends the timer task.
CheckTimeoutRaise(t) ==
    /\ t \in tasks /\ t.pc = "ct_check"
    /\ TimeoutGuard(fsmData[t.user].session, t.question_index, t.deadline)
    /\ tasks' = tasks \ {t}
    /\ UNCHANGED <<distVars, retry, boot, now, ticks, sheetVars, resultsSheet, redisVars, fsmVars, events,
                   curSid, chat, ghostVars>>
    /\ raised' = raised \cup
            {Raise("check_timeout", "check_timeout", t.user, t.tid, "event loop")}

NextFault ==
    \/ Next
    \/ \E u \in Users, button \in StartButtons, c \in Catchers : PrepareTestRaise(u, button, c)
    \/ \E t \in tasks, c \in Catchers : AskNextQuestionRaise(t, c)
    \/ \E t \in tasks : ProcessAnswerRaise(t)
    \/ \E t \in tasks : CheckTimeoutRaise(t)

SpecFault == InitLive /\ [][NextFault]_vars

-----------------------------------------------------------------------------
(* GoogleSheetsService._retry_request on its own: a request whose          *)
(* attempts get the given responses, one response per attempt.             *)

max_retries == 3
retry_delay == 1

\* What an attempt can get: 200 is a result; 0 stands for an exception that
\* is no HttpError; every other number is the status of an HttpError.
Responses == {200, 429, 500, 502, 503, 504, 400, 403, 404, 0}

\* Line 51: e.resp.status in [429, 500, 502, 503, 504]
Transient(status) == status \in {429, 500, 502, 503, 504}

\* Variant: a linear delay; C29 fails for it.
BackoffLinear(attempt) == retry_delay * (attempt + 1)

\* Line 52: delay = self.retry_delay * (2 ** attempt)
Backoff(attempt) == retry_delay * Pow2(attempt)

Returned200(value) == [kind |-> "returned", value |-> value]
RaisedError(value) == [kind |-> "raised", value |-> value]

InitRetry ==
    /\ InitEngineWith([config |-> AdminConfig(2, 2, 24, 1), results |-> <<>>])
    /\ IdleDist
    /\ IdleBoot
    /\ \E responses \in [1..max_retries -> Responses] :
            retry = [pc |-> "loop", responses |-> responses, attempt |-> 0, calls |-> <<>>,
                     slept |-> <<>>, last_error |-> None, result |-> None]

\* Lines 43-60: one pass of the loop, for attempt in range(self.max_retries).
Attempt ==
    /\ retry.pc = "loop"
    /\ retry.attempt < max_retries
    /\ LET attempt == retry.attempt
           status == retry.responses[attempt + 1]
           called == [retry EXCEPT !.calls = Append(@, status)]
       IN  IF status = 200
           THEN retry' = [called EXCEPT !.pc = "done", !.result = Some(Returned200(status))]
           ELSE IF status = 0
           THEN retry' = [called EXCEPT !.pc = "done", !.result = Some(RaisedError(status))]
           ELSE IF Transient(status)
           THEN retry' = [called EXCEPT !.last_error = Some(status),
                                        !.slept = Append(@, Backoff(attempt)),
                                        !.attempt = attempt + 1]
           ELSE retry' = [called EXCEPT !.last_error = Some(status), !.pc = "done",
                                        !.result = Some(RaisedError(status))]
    /\ UNCHANGED <<engineVars, distVars, boot>>

\* Lines 61-62: the loop has run out; raise last_error.
GiveUp ==
    /\ retry.pc = "loop"
    /\ retry.attempt = max_retries
    /\ retry' = [retry EXCEPT !.pc = "done", !.result = Some(RaisedError(Get(retry.last_error)))]
    /\ UNCHANGED <<engineVars, distVars, boot>>

NextRetry == Attempt \/ GiveUp

SpecRetry == InitRetry /\ [][NextRetry]_vars

-----------------------------------------------------------------------------
(* main(): the start of the process, and the bot it starts.                *)

InitBoot ==
    /\ InitEngineWith([config |-> AdminConfig(1, 1, 24, 1), results |-> <<>>])
    /\ IdleDist
    /\ IdleRetry
    /\ \E config_valid \in BOOLEAN, reachable \in BOOLEAN :
            boot = [pc |-> "validate", config_valid |-> config_valid, reachable |-> reachable,
                    redis_client |-> None, storage |-> None]

\* Lines 30-34: Config.validate(); sys.exit(1) on a ValueError.
Validate ==
    /\ boot.pc = "validate"
    /\ boot' = [boot EXCEPT !.pc = IF boot.config_valid THEN "connect" ELSE "exit"]
    /\ UNCHANGED <<engineVars, distVars, retry>>

\* Line 37 with redis_service.py:15-27: connect() pings the server; on any
\* exception it logs the error and sets redis_client to None.
Connect ==
    /\ boot.pc = "connect"
    /\ boot' = [boot EXCEPT !.pc = "storage",
                            !.redis_client = IF boot.reachable THEN Some("client") ELSE None]
    /\ UNCHANGED <<engineVars, distVars, retry>>

\* Lines 43-57: RedisStorage with a client, MemoryStorage without; then the
\* routers are included and polling starts (line 83).
ChooseStorage ==
    /\ boot.pc = "storage"
    /\ boot' = [boot EXCEPT !.pc = "polling",
                            !.storage = IF IsSome(boot.redis_client) THEN Some("RedisStorage")
                                        ELSE Some("MemoryStorage")]
    /\ UNCHANGED <<engineVars, distVars, retry>>

\* The handlers run once polling has started.
Polling == boot.pc = "polling" /\ Next

NextBoot ==
    \/ Validate
    \/ Connect
    \/ ChooseStorage
    \/ Polling

SpecBoot == InitBoot /\ [][NextBoot]_vars

-----------------------------------------------------------------------------
(* The engine while the administrator edits the settings sheet: the edit   *)
(* can fall between any two steps of the handlers, also between the two   *)
(* reads of the settings by start_test_callback and prepare_test. The user *)
(* starts up to MaxAdminSessions sessions.                                 *)

BaseConfig == AdminConfig(2, 1, 24, 1)

\* The settings after the edit: every field differs from BaseConfig, and
\* more questions are asked for than the questions sheet holds.
EditedConfig == AdminConfig(3, 0, 1, 2)

InitAdmin ==
    /\ InitEngineWith([config |-> BaseConfig, results |-> <<>>])
    /\ IdleDist
    /\ IdleRetry
    /\ IdleBoot

\* The administrator changes the settings sheet, once.
AdminEdit ==
    /\ editedAt = None
    /\ adminConfig' = EditedConfig
    /\ editedAt' = Some(now)
    /\ UNCHANGED <<distVars, retry, boot, raised, now, questionsSheet, resultsSheet, redisVars, fsmVars, tasks, events,
                   ticks, curSid, chat, ghostVars>>

\* start_test_callback up to its call of prepare_test, lines 154-205.
StartTestCallbackCheck(u, button) ==
    /\ events < MaxEvents
    /\ curSid[u] + Cardinality({t \in tasks : t.user = u /\ t.pc = "prepare"}) < MaxAdminSessions
    /\ button \in chat[u].start_buttons
    /\ events' = events + 1
    /\ LET all_questions == questionsSheet
           tid == events + 1
           data == IF button = "start_init_test"
                   THEN [fsmData[u] EXCEPT !.fio = Some("fio"), !.user_data = Some([id |-> u]),
                                           !.campaign_name = None, !.mode = None]
                   ELSE [fsmData[u] EXCEPT !.fio = Some("fio"), !.user_data = Some([id |-> u])]
       IN  IF Len(all_questions) = 0 \/ Len(all_questions) < adminConfig.num_questions
           THEN /\ StateClear(u)
                /\ chat' = Notice(u, "no_questions")
                /\ tasks' = tasks
           ELSE /\ fsmData' = [fsmData EXCEPT ![u] = data]
                /\ fsmState' = [fsmState EXCEPT ![u] = Some("PREPARE_TEST")]
                /\ tasks' = tasks \cup {NewTask(tid, "start", u, "prepare")}
                /\ chat' = chat
    /\ UNCHANGED <<distVars, retry, boot, raised, now, ticks, sheetVars, resultsSheet, redisVars, curSid, ghostVars>>

\* prepare_test as start_test_callback calls it at line 206.
PrepareTestCall(t) ==
    /\ t \in tasks /\ t.pc = "prepare"
    /\ PrepareTest(t.user, t.tid, fsmData[t.user], {t})
    /\ UNCHANGED <<distVars, retry, boot, raised, now, ticks, sheetVars, resultsSheet, redis_client, events, scored,
                   finished, answers, guards>>

NextAdmin ==
    \/ AdminEdit
    \/ Tick
    \/ \E u \in Users : CmdStart(u)
    \/ \E u \in Users, button \in StartButtons : StartTestCallbackCheck(u, button)
    \/ \E t \in tasks : PrepareTestCall(t)
    \/ \E t \in tasks : AskNextQuestion(t)
    \/ \E u \in Users : \E b \in PressedButtons(u) : ProcessAnswer(u, b)
    \/ \E t \in tasks : ProcessAnswerAdvance(t)
    \/ \E t \in tasks : CheckTimeoutWake(t)
    \/ \E t \in tasks : CheckTimeoutFire(t)
    \/ \E t \in tasks : FinishTestRecord(t)
    \/ \E t \in tasks : FinishTestClear(t)

SpecAdmin == InitAdmin /\ [][NextAdmin]_vars

-----------------------------------------------------------------------------
(* The distributor on its own: one call of                                 *)
(* distribute_questions_by_category on a pool of up to MaxPool questions   *)
(* of any categories and a target of up to MaxTarget.                      *)

RECURSIVE PoolsOfLen(_)
PoolsOfLen(n) ==
    IF n = 0 THEN {<<>>}
    ELSE {Append(p, Question(c, 1, FALSE, FirstRow + n - 1)) :
            p \in PoolsOfLen(n - 1), c \in Categories}

Pools == UNION {PoolsOfLen(n) : n \in 0..MaxPool}

InitDist ==
    /\ InitEngineWith([config |-> AdminConfig(2, 2, 24, 1), results |-> <<>>])
    /\ dPool \in Pools
    /\ dTarget \in 1..MaxTarget
    /\ dResult = <<>>
    /\ dPhase = "ready"
    /\ dQuotas = [c \in Categories |-> 0]
    /\ IdleRetry
    /\ IdleBoot

DistributeCall ==
    /\ dPhase = "ready"
    /\ dResult' \in Distribute(dPool, dTarget)
    /\ dPhase' = "returned"
    /\ UNCHANGED <<dPool, dTarget, dQuotas, engineVars, retry, boot>>

NextDist == DistributeCall

SpecDist == InitDist /\ [][NextDist]_vars

-----------------------------------------------------------------------------
(* The first half of the distributor on its own, lines 27-62: the quotas   *)
(* for a pool of 1 to MaxQuotaPool questions and a target that the pool    *)
(* can meet.                                                               *)

QuotaPools == UNION {PoolsOfLen(n) : n \in 1..MaxQuotaPool}

InitQuota ==
    /\ InitEngineWith([config |-> AdminConfig(2, 2, 24, 1), results |-> <<>>])
    /\ dPool \in QuotaPools
    /\ dTarget \in 1..Len(dPool)
    /\ dResult = <<>>
    /\ dPhase = "ready"
    /\ dQuotas = [c \in Categories |-> 0]
    /\ IdleRetry
    /\ IdleBoot

QuotaCall ==
    /\ dPhase = "ready"
    /\ dQuotas' = [c \in Categories |->
                        IF c \in Range(CategoryOrder(dPool))
                        THEN QuotasAfterRemainder(dPool, dTarget)[c] ELSE 0]
    /\ dPhase' = "quotas"
    /\ UNCHANGED <<dPool, dTarget, dResult, engineVars, retry, boot>>

NextQuota == QuotaCall

SpecQuota == InitQuota /\ [][NextQuota]_vars

-----------------------------------------------------------------------------
(* Properties of the distributor, checked under SpecDist.                  *)

Returned == dPhase = "returned"

\* C9: for a target T with 1 <= T <= total, the returned selection has T
\* questions, takes from every category no more than the category holds,
\* and takes from every category floor(T * c / total) questions or one more.
C9_QuotasWithinOne ==
    (Returned /\ dTarget <= Len(dPool)) =>
        /\ Len(dResult) = dTarget
        /\ SeqSum([i \in 1..Len(CategoryOrder(dPool)) |->
                        CountIn(dResult, CategoryOrder(dPool)[i])]) = dTarget
        /\ \A c \in Categories :
                /\ CountIn(dResult, c) <= CountIn(dPool, c)
                /\ CountIn(dResult, c) \in
                        {BaseQuota(dPool, dTarget, c), BaseQuota(dPool, dTarget, c) + 1}

\* A call where the rounding leaves a remainder: three categories of sizes
\* 2, 1, 1 and a target of 3, a category of one question receiving an extra
\* slot.
C9_Witness ==
    /\ Returned
    /\ Len(dPool) = 4 /\ dTarget = 3
    /\ Len(CategoryOrder(dPool)) = 3
    /\ \E c \in Categories :
            /\ CountIn(dPool, c) = 1
            /\ CountIn(dResult, c) = BaseQuota(dPool, dTarget, c) + 1

\* C10: a pool shorter than the target comes back whole, every question
\* exactly once, so with the pool's length; an empty pool gives the empty
\* list.
C10_ShortfallPermutation ==
    /\ (Returned /\ Len(dPool) = 0) => dResult = <<>>
    /\ (Returned /\ Len(dPool) < dTarget) =>
            /\ Len(dResult) = Len(dPool)
            /\ \A i \in DOMAIN dPool :
                    Cardinality({j \in DOMAIN dResult : dResult[j] = dPool[i]}) = 1

\* A pool of three questions, a larger target, and a returned order that is
\* not the pool's.
C10_Witness ==
    /\ Returned
    /\ Len(dPool) = 3 /\ dTarget > 3
    /\ Len(dResult) = 3
    /\ dResult # dPool

-----------------------------------------------------------------------------
(* Properties of the engine, checked under Spec.                           *)

Wrong(s) == s.answer # s.question.correct_answer

\* C1: for one question of one session, the answer path and the timeout
\* path never both take effect: no answer to question i is scored and
\* stored as an advance or finishes the test when the timer of question i
\* has finished the same session.
C1_AnswerOrTimeoutNeverBoth ==
    \A s \in scored, f \in finished :
        ~ /\ f.found /\ f.by = "timer"
          /\ f.sid = s.sid /\ f.session_sid = s.sid /\ s.msg_sid = s.sid
          /\ f.question_index = s.question_index
          /\ \/ s.effect = "advanced"
             \/ \E g \in finished : g.found /\ g.tid = s.tid /\ g.kind = "answer"

\* C2: a prepare_test call made while a session stored for the user has
\* neither expired nor been deleted is rejected.
C2_ActiveSessionRejectsPrepare ==
    \A p \in prepared : p.held => p.outcome = "active_session"

\* C3: a wrong on-time answer to a critical question does not advance the
\* session to the next question.
C3_CriticalWrongAnswerFinishes ==
    \A s \in scored : (s.question.is_critical /\ Wrong(s)) => s.effect # "advanced"

\* The wrong answer that uses up the last point of a session created with
\* max_errors >= 1, given to a non-critical question.
MthWrong(s) ==
    /\ Wrong(s)
    /\ ~s.question.is_critical
    /\ s.before.admin_config_snapshot.max_errors >= 1
    /\ s.after.remaining_score = 0

\* C4: the M-th wrong answer to a non-critical question is not stored as an
\* advance, and its handler does nothing but finish the test as failed at
\* that question: it asks no further question and starts no timer.
C4_ScoreExhaustionFinishes ==
    \A s \in scored : MthWrong(s) =>
        /\ s.effect # "advanced"
        /\ \A t \in tasks : t.tid = s.tid =>
                /\ t.kind = "answer"
                /\ t.pc \in {"pa_mark", "fin", "fin_clear"}
                /\ t.pc # "pa_mark" =>
                        (~t.passed /\ t.by = "exhausted" /\ t.question_index = s.question_index)
        /\ \A f \in finished : f.tid = s.tid =>
                /\ f.kind = "answer" /\ ~f.passed
                /\ f.question_index = s.question_index

\* Two wrong answers in a row with max_errors = 2: the second one, to the
\* second question, has finished the test as failed.
C4_Witness ==
    \E s \in scored, f \in finished :
        /\ MthWrong(s)
        /\ s.before.admin_config_snapshot.max_errors = 2
        /\ s.question_index = 1
        /\ f.tid = s.tid /\ f.found /\ f.cleared /\ ~f.passed

\* C5: a session with max_errors >= 1 whose questions were all answered
\* correctly finishes as passed and gets one row in the results sheet.
C5_AllCorrectWrittenOnce ==
    \A f \in finished :
        ( /\ f.found /\ f.by = "ask"
          /\ Get(f.session).admin_config_snapshot.max_errors >= 1
          /\ Get(f.session).correct_count = Len(Get(f.session).question_ids) )
        => (f.passed /\ f.rows = 1 /\ ~f.raised)

\* C6: a finish_test call that starts after a finish_test call on the same
\* session has completed writes no row and changes neither the session
\* store nor the conversation state.
C6_SecondFinishChangesNothing ==
    \A f \in finished : (~f.found /\ f.in_sequence) => (f.rows = 0 /\ ~f.changed)

\* A timer and a late answer both called finish_test for one question; the
\* second call started when the first had completed.
C6_Witness ==
    \E f \in finished, g \in finished :
        /\ ~f.found /\ f.in_sequence
        /\ g.found /\ g.cleared /\ g.session_sid = f.sid
        /\ g.question_index = f.question_index

C8_RecentAttemptRefused ==
    \A p \in prepared :
        ( /\ IsSome(p.last_attempt)
          /\ p.at - Get(p.last_attempt) < p.config.retry_hours * Hour )
        => p.outcome = "cooldown"

\* C13: every session-store access of prepare_test uses the id of the user
\* taking the test as its key.
C13_StoreKeyedByUser ==
    \A p \in prepared : p.key = p.user

\* C15: of the finish_test calls made for one session that find it, at most
\* one hands a result to write_result.
C15_WriteResultOncePerSession ==
    \A f, g \in finished :
        ( /\ f.found /\ g.found
          /\ f.user = g.user
          /\ f.sid = g.sid /\ f.session_sid = f.sid /\ g.session_sid = g.sid )
        => (f.tid = g.tid /\ f.kind = g.kind)

\* C18: a correct on-time answer never makes its handler call
\* finish_test(passed=False).
C18_CorrectAnswerNeverFails ==
    \A s \in scored : ~Wrong(s) => s.effect # "finish"

\* C19: a session is finished by a timeout watcher only after the deadline
\* of its own live question has passed.
C19_TimeoutOnlyAfterOwnDeadline ==
    \A f \in finished :
        (f.by = "timer" /\ f.found) =>
            /\ IsSome(Get(f.session).per_question_deadline)
            /\ f.at >= Get(Get(f.session).per_question_deadline)

\* C12: when a check_timeout task armed for question i and deadline d takes
\* its second look, it calls finish_test(passed=False, timeout_question=i+1)
\* if and only if the live session is at index i and the time is >= d;
\* otherwise it ends without changing the state, the store, the results or
\* the tasks. A finish_test call made by a timer hands write_result the
\* result "failed" with the note of question i+1.
C12_TimerFiresIffLiveIndexAndDeadline ==
    /\ \A g \in guards :
            LET live == /\ IsSome(g.current_index)
                        /\ Get(g.current_index) = g.question_index
                        /\ g.at >= g.deadline
            IN  /\ live => g.calls = {[passed |-> FALSE,
                                       timeout_question |-> Some(g.question_index + 1)]}
                /\ ~live => (g.calls = {} /\ ~g.changed)
    /\ \A f \in finished :
            (f.by = "timer" /\ f.found) =>
                LET kwargs == FinishTestKwargs(f.user, Get(f.session), f.passed, f.timeout_question)
                IN  /\ kwargs.result = "failed"
                    /\ kwargs.notes = Some(f.question_index + 1)

\* A timer fired on its live question, and another one ended as a no-op on
\* a session that was at another index.
C12_Witness ==
    /\ \E g \in guards : g.calls # {}
    /\ \E g \in guards :
            /\ g.calls = {}
            /\ IsSome(g.current_index)
            /\ Get(g.current_index) # g.question_index

\* An answer to the question the session is at, which has a deadline.
OnLiveQuestion(a) ==
    /\ IsSome(a.current_index)
    /\ Get(a.current_index) = a.question_index
    /\ IsSome(a.deadline)

\* C16: an answer to the live question processed after per_question_deadline
\* is not scored and stores nothing; its handler calls
\* finish_test(passed=False, timeout_question=index+1), which hands
\* write_result the result "failed" with that note. An answer processed at a
\* time <= the deadline is scored and calls no finish_test at that point.
C16_LateAnswerNotScored ==
    /\ \A a \in answers :
            OnLiveQuestion(a) =>
                IF a.at > Get(a.deadline)
                THEN /\ ~a.marked
                     /\ a.verdict = "late"
                     /\ a.calls = {[passed |-> FALSE,
                                    timeout_question |-> Some(a.question_index + 1)]}
                ELSE /\ a.marked
                     /\ a.verdict = "scored"
                     /\ a.calls = {}
    /\ \A f \in finished :
            (f.by = "late" /\ f.found) =>
                LET kwargs == FinishTestKwargs(f.user, Get(f.session), f.passed, f.timeout_question)
                IN  /\ kwargs.result = "failed"
                    /\ kwargs.notes = Some(f.question_index + 1)

\* One answer came after the deadline and one exactly at the deadline.
C16_Witness ==
    /\ \E a \in answers : OnLiveQuestion(a) /\ a.at > Get(a.deadline)
    /\ \E a \in answers : OnLiveQuestion(a) /\ a.at = Get(a.deadline)
    /\ \E f \in finished : f.by = "late" /\ f.found

\* C17: an answer whose question_index differs from the current_index of
\* the session leaves the conversation data and state, the store and the
\* entries issued to it, the tasks (timers included) and the results sheet
\* as they were, and is not scored.
C17_StaleAnswerChangesNothing ==
    \A a \in answers :
        (IsSome(a.current_index) /\ Get(a.current_index) # a.question_index) =>
            /\ ~a.changed
            /\ ~a.marked
            /\ a.calls = {}
            /\ a.verdict = "stale"

\* A button of an earlier question was pressed.
C17_Witness ==
    \E a \in answers : IsSome(a.current_index) /\ Get(a.current_index) # a.question_index

\* C14: a finish_test(passed=True) call finds only a session whose
\* current_index has reached the number of its selected questions.
C14_PassedOnlyAtEnd ==
    \A f \in finished :
        (f.passed /\ f.found) =>
            Get(f.session).current_index >= Len(Get(f.session).question_ids)

\* The question_ids of a session come from a prepare_test call of the user
\* that created a session at the time the session says it started.
CreatedBy(u, session) ==
    \E p \in prepared :
        /\ p.outcome = "created" /\ p.user = u
        /\ p.at = session.started_at
        /\ Get(p.session).question_ids = session.question_ids

\* C22: a session created by prepare_test starts at index 0 with no correct
\* answers, with remaining_score = max_errors of the settings the call
\* read, without a deadline, and with question_ids naming num_questions
\* distinct rows of the questions sheet; every session found later in the
\* conversation state, in an entry handed to the store or in a handler's
\* hands still has the question_ids it was created with.
C22_CreatedSessionShape ==
    /\ \A p \in prepared :
            p.outcome = "created" =>
                LET session == Get(p.session)
                    ids == session.question_ids
                IN  /\ session.current_index = 0
                    /\ session.correct_count = 0
                    /\ session.remaining_score = p.config.max_errors
                    /\ session.per_question_deadline = None
                    /\ Len(ids) = p.config.num_questions
                    /\ \A i, j \in DOMAIN ids : ids[i] = ids[j] => i = j
                    /\ \A i \in DOMAIN ids :
                            \E k \in DOMAIN questionsSheet : questionsSheet[k].row_index = ids[i]
    /\ \A u \in Users :
            IsSome(fsmData[u].session) => CreatedBy(u, Get(fsmData[u].session))
    /\ \A k \in Keys :
            IsSome(issued[k]) => \E u \in Users : CreatedBy(u, Get(issued[k]).session)
    /\ \A t \in tasks :
            IsSome(t.session) => CreatedBy(t.user, Get(t.session))

\* A session of one question out of two was created, and a session that
\* has moved on to its second question is in the conversation state.
C22_Witness ==
    /\ \E p \in prepared :
            p.outcome = "created" /\ Len(Get(p.session).question_ids) < Len(questionsSheet)
    /\ \E u \in Users :
            /\ IsSome(fsmData[u].session)
            /\ Get(fsmData[u].session).current_index >= 1

\* C23: the TTL of every entry handed to the store is 300 s plus
\* seconds_per_question of the session's snapshot for each question from
\* current_index on: the selected count times seconds_per_question + 300
\* at prepare_test, where current_index is 0, and less by one question's
\* time for each question passed afterwards.
C23_TtlFromRemainingQuestions ==
    \A k \in Keys :
        IsSome(issued[k]) =>
            LET entry == Get(issued[k])
                selected_count == Len(entry.session.question_ids)
                seconds_per_question == entry.session.admin_config_snapshot.seconds_per_question
            IN  /\ entry.ttl = (selected_count - entry.session.current_index) * seconds_per_question + 300
                /\ entry.session.current_index = 0 =>
                        entry.ttl = selected_count * seconds_per_question + 300
                /\ entry.expires - entry.ttl = entry.session.last_action_at

\* An entry handed over by process_answer after the first of two questions,
\* with the time of one question left, next to one handed over for a
\* session at its first question.
C23_Witness ==
    \E k, l \in Keys :
        /\ IsSome(issued[k]) /\ IsSome(issued[l])
        /\ Get(issued[k]).session.current_index = 1
        /\ Len(Get(issued[k]).session.question_ids) = 2
        /\ Get(issued[k]).ttl = 301
        /\ Get(issued[l]).session.current_index = 0
        /\ Get(issued[l]).ttl = 302

\* C24: between the steps of the handlers, a session held in the
\* conversation state of a user is also the session of the entry last
\* handed to the store under that user's key.
C24_StateEqualsStoreEntry ==
    \A u \in Users :
        IsSome(fsmData[u].session) =>
            /\ IsSome(issued[u])
            /\ Get(issued[u]).session = Get(fsmData[u].session)

\* C25: the session of a user is gone from the conversation state only
\* after a finish_test call has found it.
C25_OnlyFinishDestroys ==
    \A u \in Users :
        ( /\ \E p \in prepared : p.outcome = "created" /\ p.user = u
          /\ ~IsSome(fsmData[u].session) )
        => \E f \in finished : f.user = u /\ f.found

\* C31: while the conversation state of a user holds one session, its
\* current_index stays within 0..len(question_ids) and never decreases, and
\* every scored answer that does not end the session raises it by exactly 1.
C31_IndexAdvancesByOne ==
    [][\A u \in Users :
        ( /\ IsSome(fsmData[u].session)
          /\ IsSome(fsmData'[u].session)
          /\ curSid'[u] = curSid[u] )
        => LET before == Get(fsmData[u].session)
               after == Get(fsmData'[u].session)
           IN  /\ after.current_index \in 0..Len(after.question_ids)
               /\ after.current_index >= before.current_index
               /\ (\E s \in scored' \ scored : s.user = u /\ s.effect = "advanced")
                    => after.current_index = before.current_index + 1]_vars

\* C32: every copy of a session, in the conversation state or in the hands
\* of a handler, has remaining_score <= max_errors of its snapshot and
\* >= -1; the copy in the conversation state, from which questions are asked
\* and answered, is never negative, and a handler with a negative copy is on
\* its way to finish_test.
C32_ScoreWithinBudget ==
    /\ \A u \in Users :
            IsSome(fsmData[u].session)
            => LET session == Get(fsmData[u].session)
               IN  /\ session.remaining_score <= session.admin_config_snapshot.max_errors
                   /\ session.remaining_score >= 0
    /\ \A t \in tasks :
            IsSome(t.session)
            => LET session == Get(t.session)
               IN  /\ session.remaining_score <= session.admin_config_snapshot.max_errors
                   /\ session.remaining_score >= 0 - 1
                   /\ session.remaining_score < 0 => t.pc \in {"pa_mark", "fin", "fin_clear"}
                   /\ t.pc = "ask" => session.remaining_score > 0

\* A wrong answer has taken the score of a handler's copy below zero and the
\* handler has called finish_test.
C32_Witness ==
    \E t \in tasks :
        /\ t.pc = "fin" /\ t.by = "exhausted"
        /\ IsSome(t.session)
        /\ Get(t.session).remaining_score < 0

\* The question a step of ask_next_question presents to the user u, if the
\* step presents one: its timer is new.
Presented(u) == {t \in tasks' \ tasks : t.kind = "timer" /\ t.pc = "ct_sleep" /\ t.user = u}

C34_CampaignSessionCarriesCampaign ==
    \A p \in prepared :
        p.outcome = "created"
        => LET campaign == GetActiveCampaignForUser(CampaignsSheet, resultsSheet, p.user)
               session == Get(p.session)
           IN  IF IsSome(campaign)
               THEN /\ session.campaign_name = Some(Get(campaign).name)
                    /\ session.mode = Some(Get(campaign).type)
                    /\ "campaign_name" \in DOMAIN FinishTestKwargs(p.user, session, TRUE, None)
               ELSE /\ session.campaign_name = None
                    /\ session.mode = None

\* C35: once finish_test has found and cleared the session of a user, no
\* step other than a new prepare_test puts a Session into the conversation
\* state of that user or into the store.
C35_NoWriteAfterFinish ==
    [][\A u \in Users :
        ( /\ \E f \in finished :
                f.user = u /\ f.found /\ f.cleared /\ f.session_sid = curSid[u]
          /\ ~IsSome(fsmData[u].session)
          /\ curSid'[u] = curSid[u] )
        => /\ ~IsSome(fsmData'[u].session)
           /\ store' = store]_vars

\* C36: of the answers a session receives for one question index, at most
\* one is scored, written to the conversation state and followed by the
\* next question.
C36_IndexScoredOnce ==
    \A s1, s2 \in scored :
        ( /\ s1.user = s2.user /\ s1.sid = s2.sid
          /\ s1.question_index = s2.question_index
          /\ s1.effect = "advanced" /\ s2.effect = "advanced" )
        => s1.tid = s2.tid

\* C37: an answer is scored only against the session whose question message
\* carried the pressed button.
C37_AnswerOfOwnSession ==
    \A s \in scored : s.msg_sid = s.sid

\* correct_count + (max_errors - remaining_score) = current_index
Conserved(session) ==
    session.correct_count
        + (session.admin_config_snapshot.max_errors - session.remaining_score)
    = session.current_index

\* C38: every Session that prepare_test, ask_next_question or process_answer
\* has put into the conversation state, or has asked the store to hold, has
\* its counters conserved.
C38_CountersConserved ==
    /\ \A u \in Users : IsSome(fsmData[u].session) => Conserved(Get(fsmData[u].session))
    /\ \A k \in Keys :
         /\ IsSome(issued[k]) => Conserved(Get(issued[k]).session)
         /\ IsSome(store[k]) => Conserved(Get(store[k]).session)
    /\ \A p \in prepared : p.outcome = "created" => Conserved(Get(p.session))

\* A session with one right and one wrong answer behind it.
C38_Witness ==
    \E u \in Users :
        /\ IsSome(fsmData[u].session)
        /\ Get(fsmData[u].session).current_index = 2
        /\ Get(fsmData[u].session).correct_count = 1
        /\ Get(fsmData[u].session).remaining_score
                = Get(fsmData[u].session).admin_config_snapshot.max_errors - 1
        /\ IsSome(issued[u]) /\ Get(issued[u]).session.current_index = 2

-----------------------------------------------------------------------------
(* Properties of the engine under fair scheduling, checked under SpecLive. *)

SessionCreated(sid) == \E p \in prepared : p.outcome = "created" /\ p.sid = sid

SessionFinished(sid) ==
    \E f \in finished : f.found /\ f.cleared /\ f.session_sid = sid /\ f.sid = sid

\* C26: every session created by prepare_test is later found and cleared
\* by a finish_test call, whatever the user does, within the time the model
\* lets pass.
C26_CreatedSessionReachesFinish ==
    \A sid \in 1..MaxEvents :
        SessionCreated(sid) ~> (SessionFinished(sid) \/ ticks = MaxTicks)

-----------------------------------------------------------------------------
(* Properties of the engine with failing collaborators, checked under      *)
(* SpecFault.                                                              *)

\* C27: when prepare_test has ended in an exception raised after the
\* Session was persisted, the conversation state of the user holds no session
\* and the store holds no entry.
C27_FailedPrepareLeavesNothing ==
    \A e \in raised :
        e.within = "prepare_test" => ~e.session_in_state /\ ~e.entry_in_store

\* C28: every exception a collaborator call raises inside an operation of
\* the engine is caught by that operation.
C28_ExceptionsCaughtAtBoundary ==
    \A e \in raised : e.caught_by = e.operation

-----------------------------------------------------------------------------
(* Properties of the engine under edits of the settings, checked under     *)
(* SpecAdmin.                                                              *)

\* The snapshot a session gets from the settings a prepare_test call read.
SnapshotOf(p) ==
    AdminConfig(Get(p.actual_num), p.config.max_errors, p.config.retry_hours,
                p.config.seconds_per_question)

\* C11: whatever the settings sheet holds now, the session in the
\* conversation state carries the snapshot of the settings its prepare_test
\* call read; its deadline is the time of asking plus the snapshot's
\* seconds_per_question, its questions are as many as the snapshot says,
\* its score started from the snapshot's max_errors, and every entry handed
\* to the store has the TTL computed from the snapshot.
C11_SessionFollowsSnapshot ==
    /\ \A u \in Users :
            IsSome(fsmData[u].session) =>
                LET session == Get(fsmData[u].session)
                    snapshot == session.admin_config_snapshot
                IN  /\ \E p \in prepared :
                            /\ p.outcome = "created" /\ p.user = u
                            /\ snapshot = SnapshotOf(p)
                            /\ session.started_at = p.at
                    /\ IsSome(session.per_question_deadline) =>
                            Get(session.per_question_deadline)
                                = session.last_action_at + snapshot.seconds_per_question
                    /\ Len(session.question_ids) = snapshot.num_questions
                    /\ IsSome(fsmData[u].questions) =>
                            Len(Get(fsmData[u].questions)) = snapshot.num_questions
                    /\ session.current_index <= snapshot.num_questions
                    /\ session.remaining_score <= snapshot.max_errors
    /\ \A k \in Keys :
            IsSome(issued[k]) =>
                LET entry == Get(issued[k])
                IN  entry.ttl = (Len(entry.session.question_ids) - entry.session.current_index)
                                    * entry.session.admin_config_snapshot.seconds_per_question
                                + TtlPadding
    /\ \A s \in scored :
            /\ s.effect = "finish" => s.after.remaining_score <= 0
            /\ s.effect = "advanced" => s.after.remaining_score > 0

\* The settings were edited during a session, and afterwards a question of
\* that session was answered and its next question asked.
C11_Witness ==
    /\ IsSome(editedAt)
    /\ \E u \in Users :
            /\ IsSome(fsmData[u].session)
            /\ LET session == Get(fsmData[u].session)
               IN  /\ session.started_at < Get(editedAt)
                   /\ session.last_action_at > Get(editedAt)
                   /\ session.current_index = 1
                   /\ IsSome(session.per_question_deadline)
                   /\ session.admin_config_snapshot # adminConfig

\* The selection a prepare_test call got from the distributor is shorter
\* than the num_questions it read.
Short(p) == IsSome(p.actual_num) /\ Get(p.actual_num) < p.config.num_questions

\* C20: a prepare_test call whose selection is short refuses to start: it
\* creates no session, hands nothing to the store, leaves the conversation
\* state cleared, and no question is asked and no timer armed on its
\* behalf.
C20_ShortfallRefused ==
    \A p \in prepared :
        Short(p) =>
            /\ p.outcome = "not_enough_questions"
            /\ p.sid = 0
            /\ p.state_empty
            /\ ~p.stored
            /\ ~p.spawned
            /\ \A t \in tasks : t.tid # p.tid

\* The settings were edited between the check of start_test_callback and
\* the read of prepare_test, which then got 2 questions for 3.
C20_Witness ==
    \E p \in prepared :
        /\ Short(p)
        /\ IsSome(editedAt)
        /\ p.config = EditedConfig

-----------------------------------------------------------------------------
(* Properties of the quotas, checked under SpecQuota.                      *)

Computed == dPhase = "quotas"

PoolCategories == Range(CategoryOrder(dPool))

Position(c) == IndexOf(CategoryOrder(dPool), c)

\* floor(target * count_c / total) and the remainder of that division, in
\* exact arithmetic.
ExactFloor(c) == (dTarget * CountIn(dPool, c)) \div Len(dPool)
ExactRemainder(c) == (dTarget * CountIn(dPool, c)) % Len(dPool)

\* The number of categories that come before c when the categories are
\* ordered by exact remainder, largest first, ties by first-seen order.
ExactBefore(c) ==
    Cardinality({d \in PoolCategories :
        \/ ExactRemainder(d) > ExactRemainder(c)
        \/ ExactRemainder(d) = ExactRemainder(c) /\ Position(d) < Position(c)})

\* The same with the remainders raw - int(raw) as the floats give them.
ComputedBefore(c) ==
    Cardinality({d \in PoolCategories :
        \/ Greater(FractionalPart(dPool, dTarget, d), FractionalPart(dPool, dTarget, c))
        \/ /\ FractionalPart(dPool, dTarget, d) = FractionalPart(dPool, dTarget, c)
           /\ Position(d) < Position(c)})

ExtraTotal ==
    dTarget - SeqSum([i \in 1..Len(CategoryOrder(dPool)) |->
                        BaseQuota(dPool, dTarget, CategoryOrder(dPool)[i])])

\* C21 as stated: the extra slots go to the categories with the largest
\* fractional remainders of target * count_c / total, ties broken by
\* first-seen order, one slot each.
C21_ExtraSlotsByExactRemainder ==
    Computed =>
        \A c \in PoolCategories :
            dQuotas[c] = ExactFloor(c) + (IF ExactBefore(c) < ExtraTotal THEN 1 ELSE 0)

\* C21, amended: the r = target - sum(int(raw)) extra slots go to the r
\* categories with the largest computed remainders raw - int(raw), where
\* categories of equal computed remainder keep first-seen order; r is at
\* most the number of categories and every category receives at most one
\* extra slot.
C21_ExtraSlotsByComputedRemainder ==
    Computed =>
        /\ ExtraTotal >= 0
        /\ ExtraTotal <= Cardinality(PoolCategories)
        /\ \A c \in PoolCategories :
                dQuotas[c] = BaseQuota(dPool, dTarget, c)
                                + (IF ComputedBefore(c) < ExtraTotal THEN 1 ELSE 0)
        /\ SeqSum([i \in 1..Len(CategoryOrder(dPool)) |-> dQuotas[CategoryOrder(dPool)[i]]])
                = dTarget

\* Quotas where a slot went to the earlier of two categories of equal
\* computed remainder, and not to the later one.
C21_Witness ==
    /\ Computed
    /\ \E c, d \in PoolCategories :
            /\ Position(c) < Position(d)
            /\ FractionalPart(dPool, dTarget, c) = FractionalPart(dPool, dTarget, d)
            /\ dQuotas[c] = BaseQuota(dPool, dTarget, c) + 1
            /\ dQuotas[d] = BaseQuota(dPool, dTarget, d)


\* The quotas of the categories of the pool after the remainders are handed
\* out, and what the clamp step makes of them.
PoolQuotas == [c \in PoolCategories |-> dQuotas[c]]

Clamped == ClampFrom(dPool, PoolQuotas, CategoryOrder(dPool), 1)

\* C39: with a target of at most the size of the pool, the quotas after the
\* remainders are handed out fit their categories, the clamp step changes no
\* quota, and the questions selected are exactly target many, so the final
\* cut to the target removes nothing.
C39_QuotasFitCategories ==
    Computed =>
        /\ dTarget <= Len(dPool)
        /\ \A c \in PoolCategories : dQuotas[c] <= CountIn(dPool, c)
        /\ Clamped = PoolQuotas
        /\ \A S \in Selections(dPool, Clamped) : Cardinality(S) = dTarget

\* A target below the size of the pool, and a category that is filled to
\* its last question by an extra slot.
C39_Witness ==
    /\ Computed
    /\ dTarget < Len(dPool)
    /\ \E c \in PoolCategories :
            /\ dQuotas[c] = CountIn(dPool, c)
            /\ dQuotas[c] = BaseQuota(dPool, dTarget, c) + 1

-----------------------------------------------------------------------------
(* Properties of _retry_request, checked under SpecRetry.                  *)

Attempts == Len(retry.calls)

Done == retry.pc = "done"

\* The parts of C29 that do not speak of trying again.
RetryShape ==
    /\ Attempts <= max_retries
    /\ Len(retry.slept) = Cardinality({k \in 1..Attempts : Transient(retry.calls[k])})
    /\ \A k \in 0..(Attempts - 1) :
            Transient(retry.calls[k + 1]) => retry.slept[k + 1] = retry_delay * 2^k
    /\ \A k \in 0..(Attempts - 2) : Transient(retry.calls[k + 1])
    /\ Done =>
         LET last == retry.calls[Attempts]
         IN  /\ Attempts >= 1
             /\ last = 200 => retry.result = Some(Returned200(200))
             /\ last # 200 => retry.result = Some(RaisedError(last))
             /\ Transient(last) => Attempts = max_retries
    /\ ~Done => retry.result = None

\* C29 as stated: a transient error on attempt k, for k = 0, 1 and 2, is
\* followed by a wait of retry_delay * 2^k and by another attempt.
C29_RetryAfterEveryTransientError ==
    /\ RetryShape
    /\ Done => \A k \in 0..(max_retries - 1) :
                  (k < Attempts /\ Transient(retry.calls[k + 1])) => Attempts > k + 1

\* C29, amended: at most max_retries attempts; a transient error on attempt
\* k is followed by a wait of retry_delay * 2^k, and by another attempt only
\* when k < max_retries - 1; after the last attempt the wait is followed by
\* raising the last error; any other error is raised at once; a result is
\* returned at once.
C29_RetryWhileAttemptsRemain ==
    /\ RetryShape
    /\ Done => \A k \in 0..(max_retries - 1) :
                  (k < Attempts /\ Transient(retry.calls[k + 1]))
                      => (Attempts > k + 1 <=> k < max_retries - 1)

\* Two transient errors, then a result.
C29_Witness ==
    /\ Done
    /\ Attempts = max_retries
    /\ retry.slept = <<1, 2>>
    /\ retry.result = Some(Returned200(200))

-----------------------------------------------------------------------------
(* Properties of the start of the process, checked under SpecBoot.         *)

\* C30: with a store that cannot be reached, polling never starts and no
\* session is created.
C30_UnreachableStoreIsFatal ==
    ~boot.reachable =>
        /\ boot.pc # "polling"
        /\ \A p \in prepared : p.outcome # "created"

====
